---- MODULE Spec2Model ----
(***************************************************************************)
(* Advantage estimation and the training loop of the Actor-Critic and      *)
(* Clipped-PPO agents (agents/actor_critic_agent.py,                        *)
(* agents/clipped_ppo_agent.py).                                            *)
(*                                                                          *)
(* Real numbers are exact rationals <<n, d>> in lowest terms with d > 0.    *)
(* The result of the standardization step, x / sqrt(v), is kept exactly as  *)
(* its sign and its square, or as NaN when the division is 0/0.             *)
(***************************************************************************)
EXTENDS Integers, Sequences, FiniteSets, TLC

VARIABLES
    pc,                              \* position of the running call
    ap_discount,                     \* self.ap.algorithm.discount
    gae_lambda,                      \* self.ap.algorithm.gae_lambda
    estimate_state_value_using_gae,  \* self.ap.algorithm.estimate_state_value_using_gae
    arg_rewards,                     \* rewards argument of the estimator call
    arg_values,                      \* values argument of the estimator call
    ret_discount,                    \* result of discount(arg_rewards, ap_discount)
    ret_gae,                         \* first result of get_general_advantage_estimation_values
    ret_returns,                     \* second result of get_general_advantage_estimation_values
    policy_gradient_rescaler,        \* self.policy_gradient_rescaler
    batch,                           \* batch.transitions: records [id, reward, game_over];
                                     \* transition i goes from state i to state i + 1
    online_value,                    \* value head of networks['main'].online_network, per state
    critic_value,                    \* get_value_for_states (the external critic), per state
    train_targets,                   \* value targets handed to the last gradient step
    train_advantages,                \* advantages handed to the last gradient step
    memory,                          \* self.memory.transitions, in collection order
    info,                            \* transition.info, per transition id
    raw_advantages,                  \* fill_advantages: advantages before standardization
    raw_value_targets,               \* fill_advantages: value_targets
    windows,                         \* fill_advantages: the transitions (ids) of every window
                                     \* handed to the estimator, in call order
    fault,                           \* the exception that ended the call, or "none"
    should_train,                    \* what self._should_train(wait_for_full_episode=True) answers
    network_batch_size,              \* self.ap.network_wrappers['main'].batch_size
    optimization_epochs,             \* self.ap.algorithm.optimization_epochs
    num_consecutive_training_steps,  \* self.ap.algorithm.num_consecutive_training_steps
    num_steps,                       \* self.ap.algorithm.num_consecutive_playing_steps.num_steps
    dataset,                         \* train(): dataset
    training_step,                   \* train(): training steps completed
    epoch,                           \* train_network(): j, epochs completed
    minibatch,                       \* train_network(): i, gradient steps issued since the shuffle
    syncs,                           \* calls of networks['main'].sync() in this train()
    shuffles,                        \* calls of batch.shuffle() in this train_network()
    gradient_steps,                  \* calls of train_and_sync_networks in this train_network()
    last_minibatch,                  \* ids of the transitions of the last gradient step, in order
    cleans,                          \* calls of post_training_commands (memory clean)
    training_iteration,              \* self.training_iteration
    train_ret                        \* what train() returned: "pending", "None" or "losses"

config == <<ap_discount, gae_lambda, estimate_state_value_using_gae,
            policy_gradient_rescaler, should_train, network_batch_size,
            optimization_epochs, num_consecutive_training_steps, num_steps>>
estimator == <<arg_rewards, arg_values, ret_discount, ret_gae, ret_returns>>
network == <<online_value, critic_value>>
gradient == <<train_targets, train_advantages>>

filled == <<info, raw_advantages, raw_value_targets, windows>>

loop == <<training_step, epoch, minibatch>>
counters == <<syncs, shuffles, gradient_steps, last_minibatch, cleans>>
trainer == <<dataset, loop, counters, training_iteration, train_ret>>

vars == <<pc, config, estimator, network, gradient, batch, memory, filled, fault,
          trainer>>

\* ------------------------------------------------------------------ bounds

\* Longest reward window handed to the estimator.
MaxLen == 3

\* ------------------------------------------------------------- arithmetic

Abs(a) == IF a < 0 THEN -a ELSE a

RECURSIVE GCD(_, _)
GCD(a, b) == IF b = 0 THEN a ELSE GCD(b, a % b)

\* The rational n/d in lowest terms, d > 0.
Rat(n, d) ==
    LET g == GCD(Abs(n), Abs(d))
        s == IF d < 0 THEN -1 ELSE 1
    IN  <<(s * n) \div g, (s * d) \div g>>

Zero == Rat(0, 1)
One == Rat(1, 1)

RNeg(p) == <<-p[1], p[2]>>

\* p + q over the least common denominator
RAdd(p, q) ==
    LET g == GCD(p[2], q[2])
    IN  Rat(p[1] * (q[2] \div g) + q[1] * (p[2] \div g), (p[2] \div g) * q[2])

RSub(p, q) == RAdd(p, RNeg(q))

\* p * q, cross-reduced before multiplying
RMul(p, q) ==
    LET g1 == GCD(Abs(p[1]), q[2])
        g2 == GCD(Abs(q[1]), p[2])
        h1 == IF g1 = 0 THEN 1 ELSE g1
        h2 == IF g2 = 0 THEN 1 ELSE g2
    IN  Rat((p[1] \div h1) * (q[1] \div h2), (p[2] \div h2) * (q[2] \div h1))

\* p / q for q # 0
RDiv(p, q) == RMul(p, IF q[1] < 0 THEN <<-q[2], -q[1]>> ELSE <<q[2], q[1]>>)

RECURSIVE RSum(_)
RSum(s) == IF s = <<>> THEN Zero ELSE RAdd(Head(s), RSum(Tail(s)))

\* x[::-1]
Reverse(s) == [i \in 1..Len(s) |-> s[Len(s) + 1 - i]]

\* x[lo:hi] with Python's 0-based, half-open bounds
Slice(s, lo, hi) == SubSeq(s, lo + 1, hi)

\* scipy.signal.lfilter([1], [1, a1], x): y[n] = x[n] - a1 * y[n-1], y[-1] = 0
RECURSIVE lfilter(_, _)
lfilter(a1, x) ==
    IF x = <<>> THEN <<>>
    ELSE LET n == Len(x)
             y == lfilter(a1, SubSeq(x, 1, n - 1))
             prev == IF n = 1 THEN Zero ELSE y[n - 1]
         IN  Append(y, RSub(x[n], RMul(a1, prev)))

\* A discount that filters forward in time (the two reversals forgotten).
discount_forward(x, gamma) == lfilter(RNeg(gamma), x)

\* ActorCriticAgent.discount
discount(x, gamma) == Reverse(lfilter(RNeg(gamma), Reverse(x)))

\* Residuals that leave the next value undiscounted.
deltas_without_discount(rewards, values, gamma) ==
    [i \in 1..Len(rewards) |-> RSub(RAdd(rewards[i], values[i + 1]), values[i])]

\* deltas = rewards + discount * values[1:] - values[:-1]
deltas(rewards, values, gamma) ==
    [i \in 1..Len(rewards) |->
        RSub(RAdd(rewards[i], RMul(gamma, values[i + 1])), values[i])]

\* A GAE that discounts the residuals by the discount alone (gae_lambda dropped).
gae_without_lambda(rewards, values, gamma, lam) ==
    discount(deltas(rewards, values, gamma), gamma)

\* gae = self.discount(deltas, discount * gae_lambda)
gae(rewards, values, gamma, lam) ==
    discount(deltas(rewards, values, gamma), RMul(gamma, lam))

\* Value targets that ignore estimate_state_value_using_gae (always gae + values).
discounted_returns_always_gae(rewards, values, gamma, lam, use_gae) ==
    LET g == gae(rewards, values, gamma, lam)
    IN  [i \in 1..Len(g) |-> RAdd(g[i], values[i])]

\* discounted_returns, the second result
discounted_returns(rewards, values, gamma, lam, use_gae) ==
    IF use_gae
    THEN LET g == gae(rewards, values, gamma, lam)
         IN  [i \in 1..Len(g) |-> RAdd(g[i], values[i])]
    ELSE LET bootstrap_extended_rewards == Append(rewards, values[Len(values)])
             d == discount(bootstrap_extended_rewards, gamma)
         IN  SubSeq(d, 1, Len(d) - 1)

\* ActorCriticAgent.get_general_advantage_estimation_values
get_general_advantage_estimation_values(rewards, values, gamma, lam, use_gae) ==
    <<gae(rewards, values, gamma, lam),
      discounted_returns(rewards, values, gamma, lam, use_gae)>>

\* ------------------------------------------------------ estimator harness

RewardSet == {Rat(0, 1), Rat(3, 1)}
PercentRewardSet == {Rat(2, 1), Rat(3, 1)}
ValueSet == {Rat(0, 1), Rat(1, 1)}
DiscountSet == {Rat(0, 1), Rat(1, 2), Rat(1, 1)}
LambdaSet == {Rat(0, 1), Rat(1, 2), Rat(1, 1)}

\* Rates in hundredths (discount 0.99, gae_lambda 0.95, discount 0.9): their
\* products stay within TLC's 32-bit integers for windows of up to two steps
\* (GAE) and three steps (plain returns).
PercentDiscount == Rat(99, 100)
PercentLambda == Rat(95, 100)

SeqsOf(S, n) == [1..n -> S]

\* No estimator call has been made.
NoEstimatorCall ==
    /\ arg_rewards = <<>>
    /\ arg_values = <<>>
    /\ ret_discount = <<>>
    /\ ret_gae = <<>>
    /\ ret_returns = <<>>

\* No gradient step has been issued.
NoGradientStep ==
    /\ train_targets = <<>>
    /\ train_advantages = <<>>

\* No advantage fill has run.
NoFill ==
    /\ raw_advantages = <<>>
    /\ raw_value_targets = <<>>
    /\ windows = <<>>
    /\ fault = "none"

\* No train() call is under way; the agent is as constructed.
NoTraining ==
    /\ dataset = <<>>
    /\ training_step = 0
    /\ epoch = 0
    /\ minibatch = 0
    /\ syncs = 0
    /\ shuffles = 0
    /\ gradient_steps = 0
    /\ last_minibatch = <<>>
    /\ cleans = 0
    /\ training_iteration = 0
    /\ train_ret = "pending"

\* The trainer's settings, where no train() call is made.
NoTrainer ==
    /\ should_train = FALSE
    /\ network_batch_size = 1
    /\ optimization_epochs = 1
    /\ num_consecutive_training_steps = 1
    /\ num_steps = 1
    /\ NoTraining


InitEstimator ==
    /\ pc = "start"
    /\ estimate_state_value_using_gae \in BOOLEAN
    /\ \/ /\ ap_discount \in DiscountSet
          /\ gae_lambda \in LambdaSet
          /\ \E n \in 1..MaxLen :
                /\ arg_rewards \in SeqsOf(RewardSet, n)
                /\ arg_values \in SeqsOf(ValueSet, n + 1)
       \/ /\ ap_discount = PercentDiscount
          /\ gae_lambda = PercentLambda
          /\ \E n \in 1..2 :
                /\ arg_rewards \in SeqsOf(PercentRewardSet, n)
                /\ arg_values \in SeqsOf(ValueSet, n + 1)
    /\ ret_discount = <<>>
    /\ ret_gae = <<>>
    /\ ret_returns = <<>>
    /\ policy_gradient_rescaler = "GAE"
    /\ batch = <<>>
    /\ online_value = <<>>
    /\ critic_value = <<>>
    /\ memory = <<>>
    /\ info = <<>>
    /\ NoGradientStep
    /\ NoFill
    /\ NoTrainer

CallDiscount ==
    /\ pc = "start"
    /\ ret_discount' = discount(arg_rewards, ap_discount)
    /\ pc' = "discount_returned"
    /\ UNCHANGED <<config, arg_rewards, arg_values, ret_gae, ret_returns,
                   network, gradient, batch, memory, filled, fault, trainer>>

CallGAE ==
    /\ pc = "start"
    /\ \E r \in {get_general_advantage_estimation_values(
                    arg_rewards, arg_values, ap_discount, gae_lambda,
                    estimate_state_value_using_gae)} :
           /\ ret_gae' = r[1]
           /\ ret_returns' = r[2]
    /\ pc' = "gae_returned"
    /\ UNCHANGED <<config, arg_rewards, arg_values, ret_discount,
                   network, gradient, batch, memory, filled, fault, trainer>>

NextEstimator == CallDiscount \/ CallGAE

SpecEstimator == InitEstimator /\ [][NextEstimator]_vars

\* ------------------------------------------ ActorCriticAgent.learn_from_batch

Rescalers == {"A_VALUE", "CUSTOM_ACTOR_CRITIC", "GAE", "TOTAL_RETURN"}

rewards_of(b) == [i \in 1..Len(b) |-> b[i].reward]

ids_of(b) == [p \in 1..Len(b) |-> b[p].id]

\* np.zeros((num_transitions, 1))
zeros(n) == [i \in 1..n |-> Zero]

\* current_state_values: the value prediction for the state of every transition
current_state_values(b, value_of) == [i \in 1..Len(b) |-> value_of[b[i].id]]

\* last_sample(batch.next_states(...)) fed to the predictor
last_next_state_value(b, value_of) == value_of[b[Len(b)].id + 1]

\* A bootstrap that is the prediction also after a game over.
bootstrap_R_always_predicted(b, value_of) == last_next_state_value(b, value_of)

\* R = 0 if batch.game_overs()[-1] else <prediction for the last next state>
bootstrap_R(b, value_of) ==
    IF b[Len(b)].game_over THEN Zero ELSE last_next_state_value(b, value_of)

\* The body of "for i in <order>": R = rewards[i] + discount * R;
\* state_value_head_targets[i] = R; action_advantages[i] = R - current_state_values[i]
RECURSIVE return_loop(_, _, _, _, _, _)
return_loop(order, b, gamma, V, R, acc) ==
    IF order = <<>> THEN acc
    ELSE LET i == Head(order)
             R2 == RAdd(b[i].reward, RMul(gamma, R))
         IN  return_loop(Tail(order), b, gamma, V, R2,
                 [targets |-> [acc.targets EXCEPT ![i] = R2],
                  advantages |-> [acc.advantages EXCEPT ![i] = RSub(R2, V[i])]])

\* range(num_transitions) and reversed(range(num_transitions)), 1-based
range(n) == [i \in 1..n |-> i]
reversed_range(n) == Reverse(range(n))

\* The return loop walked forward in time.
a_value_targets_forward(b, gamma, value_of) ==
    LET N == Len(b)
    IN  return_loop(range(N), b, gamma, current_state_values(b, value_of),
                    bootstrap_R(b, value_of),
                    [targets |-> zeros(N), advantages |-> zeros(N)])

\* The A_VALUE and CUSTOM_ACTOR_CRITIC branches
a_value_targets(b, gamma, value_of) ==
    LET N == Len(b)
    IN  return_loop(reversed_range(N), b, gamma, current_state_values(b, value_of),
                    bootstrap_R(b, value_of),
                    [targets |-> zeros(N), advantages |-> zeros(N)])

\* The GAE branch: values = current values ++ [bootstrap], last one zeroed on game over
gae_branch_values(b, value_of) ==
    LET v == Append(current_state_values(b, value_of), last_next_state_value(b, value_of))
    IN  IF b[Len(b)].game_over THEN [v EXCEPT ![Len(v)] = Zero] ELSE v

\* [state_value_head_targets, action_advantages] as handed to accumulate_gradients
learn_from_batch(b, rescaler, gamma, lam, use_gae, online, critic) ==
    CASE rescaler = "A_VALUE" -> a_value_targets(b, gamma, online)
      [] rescaler = "CUSTOM_ACTOR_CRITIC" -> a_value_targets(b, gamma, critic)
      [] rescaler = "GAE" ->
            LET r == get_general_advantage_estimation_values(
                         rewards_of(b), gae_branch_values(b, online), gamma, lam, use_gae)
            IN  [targets |-> r[2], advantages |-> r[1]]
      [] OTHER -> [targets |-> zeros(Len(b)), advantages |-> zeros(Len(b))]

ACRewardSet == {Rat(1, 1), Rat(2, 1)}
ACDiscountSet == {Rat(1, 2), Rat(9, 10)}

\* A single-episode batch: only the last transition can be terminal.
EpisodeBatches(n, R) ==
    {[i \in 1..n |-> [id |-> i, reward |-> r[i], game_over |-> (i = n /\ g)]] :
        r \in SeqsOf(R, n), g \in BOOLEAN}

InitActorCritic ==
    /\ pc = "start"
    /\ ap_discount \in ACDiscountSet
    /\ gae_lambda = Rat(1, 2)
    /\ estimate_state_value_using_gae \in BOOLEAN
    /\ policy_gradient_rescaler \in Rescalers
    /\ \E n \in 1..MaxLen :
          /\ batch \in EpisodeBatches(n, ACRewardSet)
          /\ IF policy_gradient_rescaler = "CUSTOM_ACTOR_CRITIC"
             THEN /\ critic_value \in SeqsOf(ValueSet, n + 1)
                  /\ online_value = [i \in 1..(n + 1) |-> Rat(5, 1)]
             ELSE /\ online_value \in SeqsOf(ValueSet, n + 1)
                  /\ critic_value = [i \in 1..(n + 1) |-> Rat(5, 1)]
    /\ memory = <<>>
    /\ info = <<>>
    /\ NoEstimatorCall
    /\ NoGradientStep
    /\ NoFill
    /\ NoTrainer

LearnFromBatch ==
    /\ pc = "start"
    /\ \E r \in {learn_from_batch(batch, policy_gradient_rescaler, ap_discount,
                                 gae_lambda, estimate_state_value_using_gae,
                                 online_value, critic_value)} :
           /\ train_targets' = r.targets
           /\ train_advantages' = r.advantages
    /\ pc' = "learn_returned"
    /\ UNCHANGED <<config, estimator, network, batch, memory, filled, fault, trainer>>

NextActorCritic == LearnFromBatch

SpecActorCritic == InitActorCritic /\ [][NextActorCritic]_vars

\* ------------------------------------------ ClippedPPOAgent.fill_advantages

\* The largest batch taken from the memory.
MaxBatch == 3

\* A standardized advantage x / sqrt(v), v > 0, kept as its sign and its square;
\* nan is the float 0/0.
Finite(x, v) ==
    [nan |-> FALSE,
     sgn |-> IF x[1] > 0 THEN 1 ELSE IF x[1] < 0 THEN -1 ELSE 0,
     sq |-> RDiv(RMul(x, x), v)]
NaN == [nan |-> TRUE, sgn |-> 0, sq |-> Zero]

\* transition.info before anything is written to it
NoInfo == [has_advantage |-> FALSE, advantage |-> NaN,
           has_value_target |-> FALSE, gae_based_value_target |-> Zero]

\* np.mean(x) of a non-empty array
mean(x) == RDiv(RSum(x), Rat(Len(x), 1))

\* np.std(x) ** 2, the population variance
variance(x) ==
    LET m == mean(x)
    IN  mean([i \in 1..Len(x) |-> RMul(RSub(x[i], m), RSub(x[i], m))])

\* (advantages - np.mean(advantages)) / np.std(advantages); an empty array stays
\* empty, and a zero deviation divides 0 by 0
standardize(x) ==
    IF x = <<>> THEN <<>>
    ELSE LET m == mean(x)
             v == variance(x)
         IN  [i \in 1..Len(x) |->
                 IF v = Zero THEN NaN ELSE Finite(RSub(x[i], m), v)]

\* Batch.total_returns(): the discounted return of every transition to the end
\* of its episode, as the memory recorded it in collection order
RECURSIVE total_return(_, _, _)
total_return(mem, gamma, i) ==
    IF i > Len(mem) THEN Zero
    ELSE IF mem[i].game_over THEN mem[i].reward
    ELSE RAdd(mem[i].reward, RMul(gamma, total_return(mem, gamma, i + 1)))

total_returns(b, mem, gamma) == [p \in 1..Len(b) |-> total_return(mem, gamma, b[p].id)]

\* The GAE branch with episode_start_idx never advanced.
RECURSIVE gae_rollouts_from_zero(_, _, _, _, _, _, _, _)
gae_rollouts_from_zero(idx, episode_start_idx, b, values, gamma, lam, use_gae, acc) ==
    IF idx > Len(b) THEN acc
    ELSE IF b[idx].game_over
    THEN LET rollout_state_values == Append(SubSeq(values, episode_start_idx, idx), Zero)
             r == get_general_advantage_estimation_values(
                      SubSeq(rewards_of(b), episode_start_idx, idx),
                      rollout_state_values, gamma, lam, use_gae)
         IN  gae_rollouts_from_zero(idx + 1, episode_start_idx, b, values, gamma, lam, use_gae,
                 [advantages |-> acc.advantages \o r[1],
                  value_targets |-> acc.value_targets \o r[2],
                  windows |-> Append(acc.windows,
                                     SubSeq(ids_of(b), episode_start_idx, idx))])
    ELSE gae_rollouts_from_zero(idx + 1, episode_start_idx, b, values, gamma, lam, use_gae, acc)

\* The GAE branch: for idx, game_over in enumerate(batch.game_overs()), one
\* estimator call per rollout [episode_start_idx, idx] that ends in a game over,
\* with bootstrap 0 (1-based positions)
RECURSIVE gae_rollouts(_, _, _, _, _, _, _, _)
gae_rollouts(idx, episode_start_idx, b, values, gamma, lam, use_gae, acc) ==
    IF idx > Len(b) THEN acc
    ELSE IF b[idx].game_over
    THEN LET rollout_state_values == Append(SubSeq(values, episode_start_idx, idx), Zero)
             r == get_general_advantage_estimation_values(
                      SubSeq(rewards_of(b), episode_start_idx, idx),
                      rollout_state_values, gamma, lam, use_gae)
         IN  gae_rollouts(idx + 1, idx + 1, b, values, gamma, lam, use_gae,
                 [advantages |-> acc.advantages \o r[1],
                  value_targets |-> acc.value_targets \o r[2],
                  windows |-> Append(acc.windows,
                                     SubSeq(ids_of(b), episode_start_idx, idx))])
    ELSE gae_rollouts(idx + 1, episode_start_idx, b, values, gamma, lam, use_gae, acc)

\* current_state_values.squeeze() of a one-transition batch is 0-dimensional,
\* and slicing it in the GAE branch raises IndexError
squeeze_breaks_slicing(b, rescaler) ==
    /\ rescaler = "GAE"
    /\ Len(b) = 1
    /\ b[1].game_over

\* advantages and value_targets before standardization, per rescaler
raw_estimates(b, mem, rescaler, gamma, lam, use_gae, online) ==
    LET values == current_state_values(b, online)
    IN  CASE rescaler = "A_VALUE" ->
                [advantages |-> [p \in 1..Len(b) |->
                                    RSub(total_returns(b, mem, gamma)[p], values[p])],
                 value_targets |-> <<>>,
                 windows |-> <<>>]
          [] rescaler = "GAE" ->
                gae_rollouts(1, 1, b, values, gamma, lam, use_gae,
                             [advantages |-> <<>>, value_targets |-> <<>>,
                              windows |-> <<>>])
          [] OTHER -> [advantages |-> <<>>, value_targets |-> <<>>, windows |-> <<>>]

Min(a, b) == IF a < b THEN a ELSE b

\* for transition, advantage, value_target in zip(batch.transitions, advantages,
\* value_targets): write both into transition.info
write_info(inf, b, advantages, value_targets) ==
    LET k == Min(Len(b), Min(Len(advantages), Len(value_targets)))
    IN  [id \in DOMAIN inf |->
            IF \E p \in 1..k : b[p].id = id
            THEN LET p == CHOOSE q \in 1..k : b[q].id = id
                 IN  [has_advantage |-> TRUE, advantage |-> advantages[p],
                      has_value_target |-> TRUE,
                      gae_based_value_target |-> value_targets[p]]
            ELSE inf[id]]

\* ClippedPPOAgent.fill_advantages(batch): the new info and the raw estimates
fill_advantages(inf, b, mem, rescaler, gamma, lam, use_gae, online) ==
    IF squeeze_breaks_slicing(b, rescaler)
    THEN [fault |-> "IndexError in fill_advantages", info |-> inf,
          raw_advantages |-> <<>>, raw_value_targets |-> <<>>, windows |-> <<>>]
    ELSE LET raw == raw_estimates(b, mem, rescaler, gamma, lam, use_gae, online)
         IN  [fault |-> "none",
              info |-> write_info(inf, b, standardize(raw.advantages), raw.value_targets),
              raw_advantages |-> raw.advantages,
              raw_value_targets |-> raw.value_targets,
              windows |-> raw.windows]

PPORescalers == {"A_VALUE", "GAE", "TOTAL_RETURN"}
PPORewardSet == {Rat(1, 1), Rat(2, 1)}
PPODiscountSet == {Rat(1, 2), Rat(1, 1)}

\* Transitions in collection order, any of them terminal.
Transitions(n, R) ==
    {[i \in 1..n |-> [id |-> i, reward |-> r[i], game_over |-> g[i]]] :
        r \in SeqsOf(R, n), g \in SeqsOf(BOOLEAN, n)}

InitFill ==
    /\ pc = "start"
    /\ ap_discount \in PPODiscountSet
    /\ gae_lambda = Rat(1, 2)
    /\ estimate_state_value_using_gae \in BOOLEAN
    /\ policy_gradient_rescaler \in PPORescalers
    /\ \E n \in 1..MaxBatch :
          /\ memory \in Transitions(n, PPORewardSet)
          /\ \E v \in SeqsOf(ValueSet, n) :
                /\ online_value = Append(v, Zero)
                /\ policy_gradient_rescaler # "GAE" => v = zeros(n)
          /\ info = [id \in 1..n |-> NoInfo]
    /\ batch = memory
    /\ critic_value = <<>>
    /\ NoEstimatorCall
    /\ NoGradientStep
    /\ NoFill
    /\ NoTrainer

FillAdvantages ==
    /\ pc = "start"
    /\ \E r \in {fill_advantages(info, batch, memory, policy_gradient_rescaler,
                                ap_discount, gae_lambda,
                                estimate_state_value_using_gae, online_value)} :
           /\ info' = r.info
           /\ raw_advantages' = r.raw_advantages
           /\ raw_value_targets' = r.raw_value_targets
           /\ windows' = r.windows
           /\ fault' = r.fault
           /\ pc' = IF r.fault = "none" THEN "fill_returned" ELSE "faulted"
    /\ UNCHANGED <<config, estimator, network, gradient, batch, memory, trainer>>

NextFill == FillAdvantages

SpecFill == InitFill /\ [][NextFill]_vars

\* -------------------------- ClippedPPOAgent.train_network and train

\* Batch.shuffle() and random.shuffle(): every reordering of s
Shuffles(s) ==
    {[i \in 1..Len(s) |-> s[f[i]]] :
        f \in {g \in [1..Len(s) -> 1..Len(s)] :
                  \A i, j \in 1..Len(s) : i # j => g[i] # g[j]}}

\* Batch.info(key) can be built only when every transition of the batch has the key
batch_has_info(inf, b) ==
    \A p \in 1..Len(b) : inf[b[p].id].has_advantage /\ inf[b[p].id].has_value_target

\* range(int(batch.size / batch_size)): the number of minibatches of an epoch
num_minibatches(size, batch_size) == size \div batch_size

\* The inputs of the i-th gradient step (i counted from 0): the slice [start, end)
\* of the batch's actions, states, value targets and advantages
minibatch_inputs(inf, b, mem, gamma, use_gae, i, batch_size) ==
    LET start == i * batch_size
        end == (i + 1) * batch_size
        gae_based_value_targets ==
            Slice([p \in 1..Len(b) |-> inf[b[p].id].gae_based_value_target], start, end)
    IN  [ids |-> Slice(ids_of(b), start, end),
         value_targets |-> IF use_gae THEN gae_based_value_targets
                           ELSE Slice(total_returns(b, mem, gamma), start, end),
         advantages |-> Slice([p \in 1..Len(b) |-> inf[b[p].id].advantage], start, end)]

MinibatchSizes == {1, 2}
EpochCounts == {1, 2}
TrainingStepCounts == {1, 2}

\* The memory sizes that are trained on for two consecutive training steps as
\* well as for one; larger memories are trained on for one step.
RefillSizes == {1, 2, 3}

\* The memory's transitions: reward i for the i-th one, any of them terminal.
Memories(n) ==
    {[i \in 1..n |-> [id |-> i, reward |-> Rat(i, 1), game_over |-> g[i]]] :
        g \in SeqsOf(BOOLEAN, n)}

InitTrain ==
    /\ pc = "idle"
    /\ ap_discount = Rat(1, 2)
    /\ gae_lambda = Rat(1, 2)
    /\ estimate_state_value_using_gae \in BOOLEAN
    /\ policy_gradient_rescaler \in PPORescalers
    /\ should_train \in BOOLEAN
    /\ network_batch_size \in MinibatchSizes
    /\ optimization_epochs \in EpochCounts
    /\ \E n \in 1..MaxBatch :
          /\ memory \in Memories(n)
          /\ num_consecutive_training_steps \in
                 (IF n \in RefillSizes THEN TrainingStepCounts ELSE {1})
          /\ online_value = [i \in 1..(n + 1) |-> Zero]
          /\ info = [id \in 1..n |-> NoInfo]
          /\ num_steps \in {n - 1, n} \ {0}
    /\ batch = <<>>
    /\ critic_value = <<>>
    /\ NoEstimatorCall
    /\ NoGradientStep
    /\ NoFill
    /\ NoTraining

\* A train() whose cleanup and counter sit outside the readiness test.
TrainNotReadyCleans ==
    /\ pc = "idle"
    /\ ~should_train
    /\ memory' = <<>>
    /\ cleans' = cleans + 1
    /\ training_iteration' = training_iteration + 1
    /\ train_ret' = "None"
    /\ pc' = "train_returned"
    /\ UNCHANGED <<config, estimator, network, gradient, batch, filled, fault,
                   dataset, loop, syncs, shuffles, gradient_steps, last_minibatch>>

\* train() when _should_train(wait_for_full_episode=True) is false: falls through
\* and returns None
TrainNotReady ==
    /\ pc = "idle"
    /\ ~should_train
    /\ train_ret' = "None"
    /\ pc' = "train_returned"
    /\ UNCHANGED <<config, estimator, network, gradient, batch, memory, filled, fault,
                   dataset, loop, counters, training_iteration>>

\* train(): dataset = self.memory.transitions (filtered without copying);
\* batch = Batch(dataset)
TrainBegin ==
    /\ pc = "idle"
    /\ should_train
    /\ dataset' = memory
    /\ batch' = memory
    /\ training_step' = 0
    /\ pc' = "sync"
    /\ UNCHANGED <<config, estimator, network, gradient, memory, filled, fault,
                   epoch, minibatch, counters, training_iteration, train_ret>>

\* self.networks['main'].sync()
Sync ==
    /\ pc = "sync"
    /\ syncs' = syncs + 1
    /\ pc' = "fill"
    /\ UNCHANGED <<config, estimator, network, gradient, batch, memory, filled, fault,
                   dataset, loop, shuffles, gradient_steps, last_minibatch, cleans,
                   training_iteration, train_ret>>

\* self.fill_advantages(batch)
Fill ==
    /\ pc = "fill"
    /\ \E r \in {fill_advantages(info, batch, memory, policy_gradient_rescaler,
                                ap_discount, gae_lambda,
                                estimate_state_value_using_gae, online_value)} :
           /\ info' = r.info
           /\ raw_advantages' = r.raw_advantages
           /\ raw_value_targets' = r.raw_value_targets
           /\ windows' = r.windows
           /\ fault' = r.fault
           /\ pc' = IF r.fault = "none" THEN "truncate" ELSE "faulted"
    /\ UNCHANGED <<config, estimator, network, gradient, batch, memory, trainer>>

\* dataset = dataset[:num_steps]; shuffle(dataset); batch = Batch(dataset);
\* train_network(batch, epochs) is entered
TruncateAndShuffle ==
    /\ pc = "truncate"
    /\ \E d \in Shuffles(Slice(dataset, 0, Min(num_steps, Len(dataset)))) :
          /\ dataset' = d
          /\ batch' = d
    /\ epoch' = 0
    /\ minibatch' = 0
    /\ shuffles' = 0
    /\ gradient_steps' = 0
    /\ pc' = "epoch"
    /\ UNCHANGED <<config, estimator, network, gradient, memory, filled, fault,
                   training_step, syncs, last_minibatch, cleans, training_iteration,
                   train_ret>>

\* A train_network that syncs the networks again at the start of every epoch.
EpochShuffleSyncs ==
    /\ pc = "epoch"
    /\ epoch < optimization_epochs
    /\ batch' \in Shuffles(batch)
    /\ shuffles' = shuffles + 1
    /\ syncs' = syncs + 1
    /\ minibatch' = 0
    /\ pc' = "minibatch"
    /\ UNCHANGED <<config, estimator, network, gradient, memory, filled, fault,
                   dataset, training_step, epoch, gradient_steps, last_minibatch,
                   cleans, training_iteration, train_ret>>

\* for j in range(epochs): batch.shuffle()
EpochShuffle ==
    /\ pc = "epoch"
    /\ epoch < optimization_epochs
    /\ batch' \in Shuffles(batch)
    /\ shuffles' = shuffles + 1
    /\ minibatch' = 0
    /\ pc' = "minibatch"
    /\ UNCHANGED <<config, estimator, network, gradient, memory, filled, fault,
                   dataset, training_step, epoch, syncs, gradient_steps, last_minibatch,
                   cleans, training_iteration, train_ret>>

\* One pass of "for i in range(int(batch.size / batch_size))": batch.info raises
\* KeyError when a transition lacks the key, else one gradient step on the slice
GradientStep ==
    /\ pc = "minibatch"
    /\ minibatch < num_minibatches(Len(batch), network_batch_size)
    /\ IF batch_has_info(info, batch)
       THEN LET m == minibatch_inputs(info, batch, memory, ap_discount,
                                      estimate_state_value_using_gae,
                                      minibatch, network_batch_size)
            IN  /\ train_targets' = m.value_targets
                /\ train_advantages' = m.advantages
                /\ last_minibatch' = m.ids
                /\ gradient_steps' = gradient_steps + 1
                /\ minibatch' = minibatch + 1
                /\ UNCHANGED <<pc, fault>>
       ELSE /\ fault' = "KeyError in train_network"
            /\ pc' = "faulted"
            /\ UNCHANGED <<gradient, last_minibatch, gradient_steps, minibatch>>
    /\ UNCHANGED <<config, estimator, network, batch, memory, filled, dataset,
                   training_step, epoch, syncs, shuffles,
                   cleans, training_iteration, train_ret>>

\* After the minibatch loop: every list of loss is averaged (np.mean(list, 0)) and
\* loss['policy_losses'][0] is logged; with no minibatch the mean of the empty
\* list is a scalar NaN and indexing it raises IndexError
EpochEnd ==
    /\ pc = "minibatch"
    /\ minibatch = num_minibatches(Len(batch), network_batch_size)
    /\ IF minibatch = 0
       THEN /\ fault' = "IndexError in train_network"
            /\ pc' = "faulted"
            /\ UNCHANGED epoch
       ELSE /\ epoch' = epoch + 1
            /\ pc' = "epoch"
            /\ UNCHANGED fault
    /\ UNCHANGED <<config, estimator, network, gradient, batch, memory, filled,
                   dataset, training_step, minibatch, counters, training_iteration,
                   train_ret>>

\* train_network returns policy_losses; train() records losses[0] and losses[1]
\* and goes to the next training step
TrainNetworkReturn ==
    /\ pc = "epoch"
    /\ epoch = optimization_epochs
    /\ training_step' = training_step + 1
    /\ pc' = IF training_step + 1 < num_consecutive_training_steps THEN "sync" ELSE "post"
    /\ UNCHANGED <<config, estimator, network, gradient, batch, memory, filled, fault,
                   dataset, epoch, minibatch, counters, training_iteration, train_ret>>

\* self.post_training_commands() (memory clean); self.training_iteration += 1;
\* return np.append(losses[0], losses[1])
PostTraining ==
    /\ pc = "post"
    /\ memory' = <<>>
    /\ cleans' = cleans + 1
    /\ training_iteration' = training_iteration + 1
    /\ train_ret' = "losses"
    /\ pc' = "train_returned"
    /\ UNCHANGED <<config, estimator, network, gradient, batch, filled, fault,
                   dataset, loop, syncs, shuffles, gradient_steps, last_minibatch>>

NextTrain ==
    \/ TrainNotReady
    \/ TrainBegin
    \/ Sync
    \/ Fill
    \/ TruncateAndShuffle
    \/ EpochShuffle
    \/ GradientStep
    \/ EpochEnd
    \/ TrainNetworkReturn
    \/ PostTraining

SpecTrain == InitTrain /\ [][NextTrain]_vars

\* ------------------- learn_from_batch and fill_advantages on the same batches

\* ClippedPPOAgent extends ActorCriticAgent: either estimation entry point is
\* called on a batch of the memory's transitions, in collection order. The
\* critic's values vary in CUSTOM_ACTOR_CRITIC mode and the network's in the
\* other modes.
InitBootstrap ==
    /\ pc = "start"
    /\ ap_discount \in PPODiscountSet
    /\ gae_lambda = Rat(1, 2)
    /\ estimate_state_value_using_gae \in BOOLEAN
    /\ policy_gradient_rescaler \in Rescalers
    /\ \E n \in 1..MaxBatch :
          /\ memory \in Memories(n)
          /\ IF policy_gradient_rescaler = "CUSTOM_ACTOR_CRITIC"
             THEN /\ critic_value \in SeqsOf(ValueSet, n + 1)
                  /\ online_value = [i \in 1..(n + 1) |-> Rat(5, 1)]
             ELSE /\ online_value \in SeqsOf(ValueSet, n + 1)
                  /\ critic_value = [i \in 1..(n + 1) |-> Rat(5, 1)]
          /\ info = [id \in 1..n |-> NoInfo]
    /\ batch = memory
    /\ NoEstimatorCall
    /\ NoGradientStep
    /\ NoFill
    /\ NoTrainer

NextBootstrap == LearnFromBatch \/ FillAdvantages

SpecBootstrap == InitBootstrap /\ [][NextBootstrap]_vars

\* ================================================================= claims

\* C1: discount(x, gamma) returns a sequence y of x's length T whose last entry
\* is x's last entry and with y[t] = x[t] + gamma * y[t+1] for every earlier t;
\* with gamma = 0 it returns x, and an all-zero x gives an all-zero y.
C1_DiscountRecurrence ==
    pc = "discount_returned" =>
        LET x == arg_rewards
            y == ret_discount
            T == Len(x)
        IN  /\ Len(y) = T
            /\ y[T] = x[T]
            /\ \A t \in 1..(T - 1) : y[t] = RAdd(x[t], RMul(ap_discount, y[t + 1]))
            /\ (ap_discount = Zero => y = x)
            /\ ((\A t \in 1..T : x[t] = Zero) => (\A t \in 1..T : y[t] = Zero))

\* A discount of a window of at least two steps with a non-zero first and last
\* reward at discount 1/2 has returned.
C1_Witness ==
    /\ pc = "discount_returned"
    /\ Len(arg_rewards) >= 2
    /\ ap_discount = Rat(1, 2)
    /\ arg_rewards[1] = Rat(3, 1)
    /\ arg_rewards[Len(arg_rewards)] = Rat(3, 1)
    /\ ret_discount[1] # arg_rewards[1]

\* C2: with rescaler A_VALUE or CUSTOM_ACTOR_CRITIC the gradient step of
\* learn_from_batch gets target[i] = R[i] = reward[i] + discount * R[i+1], R[N]
\* the bootstrap, and advantage[i] = R[i] - V[i] with V the predicted state
\* values; rewards [1, 1, 1], discount 0.9, terminal, V = 0 give [2.71, 1.9, 1]
\* for both.
C2_ReturnsAndAdvantages ==
    (pc = "learn_returned" /\ policy_gradient_rescaler \in {"A_VALUE", "CUSTOM_ACTOR_CRITIC"}) =>
        LET N == Len(batch)
            value_of == IF policy_gradient_rescaler = "A_VALUE"
                        THEN online_value ELSE critic_value
            RN == IF batch[N].game_over THEN Zero ELSE value_of[N + 1]
        IN  /\ Len(train_targets) = N
            /\ Len(train_advantages) = N
            /\ train_targets[N] = RAdd(batch[N].reward, RMul(ap_discount, RN))
            /\ \A i \in 1..(N - 1) :
                  train_targets[i] =
                      RAdd(batch[i].reward, RMul(ap_discount, train_targets[i + 1]))
            /\ \A i \in 1..N :
                  train_advantages[i] = RSub(train_targets[i], value_of[i])
            /\ ( /\ rewards_of(batch) = <<One, One, One>>
                 /\ ap_discount = Rat(9, 10)
                 /\ batch[N].game_over
                 /\ \A i \in 1..N : value_of[i] = Zero
                 => /\ train_targets = <<Rat(271, 100), Rat(19, 10), One>>
                    /\ train_advantages = <<Rat(271, 100), Rat(19, 10), One>> )

\* The worked example has been learnt from: rewards [1, 1, 1], discount 0.9,
\* terminal, V = [0, 0, 0], rescaler A_VALUE.
C2_Witness ==
    /\ pc = "learn_returned"
    /\ policy_gradient_rescaler = "A_VALUE"
    /\ rewards_of(batch) = <<One, One, One>>
    /\ ap_discount = Rat(9, 10)
    /\ batch[Len(batch)].game_over
    /\ \A i \in 1..Len(batch) : online_value[i] = Zero
    /\ train_advantages[1] = Rat(271, 100)

\* C3: the first result of get_general_advantage_estimation_values has one
\* entry per reward and is the discounting, at rate discount * gae_lambda, of
\* delta[i] = rewards[i] + discount * values[i+1] - values[i]; discount 0.99,
\* gae_lambda 0.95, rewards [2, 3], values [1, 1, 0] give [3.871, 2.0].
C3_GaeAdvantage ==
    pc = "gae_returned" =>
        LET N == Len(arg_rewards)
            delta == [i \in 1..N |->
                        RSub(RAdd(arg_rewards[i], RMul(ap_discount, arg_values[i + 1])),
                             arg_values[i])]
            rate == RMul(ap_discount, gae_lambda)
        IN  /\ Len(ret_gae) = N
            /\ ret_gae[N] = delta[N]
            /\ \A i \in 1..(N - 1) : ret_gae[i] = RAdd(delta[i], RMul(rate, ret_gae[i + 1]))
            /\ ( /\ ap_discount = Rat(99, 100)
                 /\ gae_lambda = Rat(95, 100)
                 /\ arg_rewards = <<Rat(2, 1), Rat(3, 1)>>
                 /\ arg_values = <<Rat(1, 1), Rat(1, 1), Rat(0, 1)>>
                 => ret_gae = <<Rat(3871, 1000), Rat(2, 1)>> )

\* The worked example (discount 0.99, gae_lambda 0.95, rewards [2, 3], values
\* [1, 1, 0]) has been estimated.
C3_Witness ==
    /\ pc = "gae_returned"
    /\ ap_discount = Rat(99, 100)
    /\ gae_lambda = Rat(95, 100)
    /\ arg_rewards = <<Rat(2, 1), Rat(3, 1)>>
    /\ arg_values = <<Rat(1, 1), Rat(1, 1), Rat(0, 1)>>
    /\ ret_gae[1] = Rat(3871, 1000)

\* C4: the second result has one entry per reward; with
\* estimate_state_value_using_gae it is advantage[i] + values[i], and without
\* it is the bootstrapped discounted return R[i] = rewards[i] + discount * R[i+1],
\* R[N] = values[N], whatever gae_lambda is.
C4_ValueTargets ==
    pc = "gae_returned" =>
        LET N == Len(arg_rewards)
        IN  /\ Len(ret_returns) = N
            /\ IF estimate_state_value_using_gae
               THEN \A i \in 1..N : ret_returns[i] = RAdd(ret_gae[i], arg_values[i])
               ELSE /\ ret_returns[N] =
                          RAdd(arg_rewards[N], RMul(ap_discount, arg_values[N + 1]))
                    /\ \A i \in 1..(N - 1) :
                          ret_returns[i] =
                              RAdd(arg_rewards[i], RMul(ap_discount, ret_returns[i + 1]))

\* A plain-return target over at least two steps with a non-zero bootstrap,
\* where it differs from advantage + value.
C4_Witness ==
    /\ pc = "gae_returned"
    /\ ~estimate_state_value_using_gae
    /\ Len(arg_rewards) >= 2
    /\ arg_values[Len(arg_values)] = One
    /\ ap_discount = Rat(1, 2)
    /\ ret_returns[1] # RAdd(ret_gae[1], arg_values[1])

\* C5: in GAE mode, on a batch made of episodes that each end with a game
\* over, the raw advantages and the value targets of fill_advantages are, at
\* every position, those of the estimator run on that position's episode alone
\* with bootstrap 0: nothing of another episode enters them.
C5_EpisodeIsolation ==
    ( /\ pc = "fill_returned"
      /\ policy_gradient_rescaler = "GAE"
      /\ batch[Len(batch)].game_over ) =>
        LET N == Len(batch)
            values == [p \in 1..N |-> online_value[batch[p].id]]
            first(p) == CHOOSE s \in 1..p :
                            /\ (s = 1 \/ batch[s - 1].game_over)
                            /\ \A q \in s..(p - 1) : ~batch[q].game_over
            last(p) == CHOOSE e \in p..N :
                            /\ batch[e].game_over
                            /\ \A q \in p..(e - 1) : ~batch[q].game_over
            alone(p) == get_general_advantage_estimation_values(
                            SubSeq(rewards_of(batch), first(p), last(p)),
                            Append(SubSeq(values, first(p), last(p)), Zero),
                            ap_discount, gae_lambda, estimate_state_value_using_gae)
        IN  /\ Len(raw_advantages) = N
            /\ Len(raw_value_targets) = N
            /\ \A p \in 1..N :
                  /\ raw_advantages[p] = alone(p)[1][p - first(p) + 1]
                  /\ raw_value_targets[p] = alone(p)[2][p - first(p) + 1]

\* A batch of two episodes, the second of at least two steps, has been filled
\* in GAE mode.
C5_Witness ==
    /\ pc = "fill_returned"
    /\ policy_gradient_rescaler = "GAE"
    /\ Len(batch) >= 3
    /\ batch[1].game_over
    /\ ~batch[2].game_over
    /\ batch[Len(batch)].game_over
    /\ Len(raw_advantages) = Len(batch)

\* C6: after fill_advantages returns, with rescaler A_VALUE or GAE, every
\* transition of the batch has an advantage and a value target in its info,
\* also when the batch ends in an open episode.
C6_EveryTransitionFilled ==
    (pc = "fill_returned" /\ policy_gradient_rescaler \in {"A_VALUE", "GAE"}) =>
        \A p \in 1..Len(batch) :
            /\ info[batch[p].id].has_advantage
            /\ info[batch[p].id].has_value_target

\* C7: when all raw advantages of the batch are equal, the standardized
\* advantages written to the transitions are finite numbers, never NaN.
C7_StandardizedFinite ==
    ( /\ pc = "fill_returned"
      /\ raw_advantages # <<>>
      /\ \A p \in 1..Len(raw_advantages) : raw_advantages[p] = raw_advantages[1] ) =>
        \A id \in DOMAIN info : info[id].has_advantage => ~info[id].advantage.nan

\* The faults train_network raises itself.
TrainNetworkFaults == {"KeyError in train_network", "IndexError in train_network"}

\* train_network has ended, by returning or by raising.
TrainNetworkEnded ==
    \/ pc \in {"post", "train_returned"} /\ should_train
    \/ pc = "sync" /\ training_step > 0
    \/ pc = "faulted" /\ fault \in TrainNetworkFaults

\* C8: on a batch of B transitions that all carry their advantage and value
\* target, train_network does, in each of the epochs, one shuffle and then
\* floor(B/M) gradient steps, the i-th on positions [i*M, (i+1)*M) of the
\* shuffled order, and ends after epochs shuffles and epochs * floor(B/M)
\* gradient steps.
C8_MinibatchPartition ==
    LET B == Len(batch)
        M == network_batch_size
    IN  batch_has_info(info, batch) =>
          /\ (pc = "minibatch" /\ minibatch > 0) =>
                last_minibatch = SubSeq(ids_of(batch), (minibatch - 1) * M + 1, minibatch * M)
          /\ (pc = "minibatch") =>
                /\ shuffles = epoch + 1
                /\ minibatch <= B \div M
                /\ gradient_steps = epoch * (B \div M) + minibatch
          /\ TrainNetworkEnded =>
                /\ shuffles = optimization_epochs
                /\ gradient_steps = optimization_epochs * (B \div M)

\* The partition of C8 where at least one minibatch fits (floor(B/M) >= 1).
C8_PartitionWhenAMinibatchFits ==
    (pc \in {"epoch", "minibatch", "post", "train_returned", "faulted"}
        /\ Len(batch) >= network_batch_size) => C8_MinibatchPartition

\* train_network has returned from a batch with a trailing partial minibatch.
C8_PartialMinibatchDropped ==
    /\ pc = "post"
    /\ Len(batch) % network_batch_size # 0
    /\ optimization_epochs = 2
    /\ gradient_steps = 2

\* C9: when _should_train is false, train() returns None and has synced nothing,
\* filled nothing, shuffled nothing, issued no gradient step, cleaned nothing,
\* and left the memory, training_iteration and every info as they were.
C9_NotReadyIsNoOp ==
    (~should_train /\ pc # "idle") =>
        /\ pc = "train_returned"
        /\ train_ret = "None"
        /\ syncs = 0
        /\ shuffles = 0
        /\ gradient_steps = 0
        /\ cleans = 0
        /\ training_iteration = 0
        /\ memory \in Memories(Len(info))
        /\ \A id \in DOMAIN info : info[id] = NoInfo
        /\ raw_advantages = <<>>
        /\ raw_value_targets = <<>>
        /\ train_targets = <<>>
        /\ train_advantages = <<>>
        /\ fault = "none"

\* train() has been called while not ready, on a memory of several transitions,
\* and has returned.
C9_Witness ==
    /\ ~should_train
    /\ pc = "train_returned"
    /\ Len(memory) >= 2
    /\ train_ret = "None"

\* C10: whatever the batch size B >= 1 and the minibatch size M >= 1, B < M
\* included, train_network on a batch whose transitions carry their advantage
\* and value target raises no fault.
C10_PartialMinibatchNoFault ==
    batch_has_info(info, batch) => fault \notin TrainNetworkFaults

\* The rescalers fill_advantages and learn_from_batch have a branch for.
HandledByPPO == {"A_VALUE", "GAE"}
HandledByActorCritic == {"A_VALUE", "CUSTOM_ACTOR_CRITIC", "GAE"}

\* C11: with a policy-gradient rescaler outside the handled modes the training
\* call only warns and completes: ClippedPPOAgent.train, that is fill_advantages
\* followed by train_network, raises no fault.
C11_UnhandledRescalerCompletes ==
    policy_gradient_rescaler \notin HandledByPPO => fault = "none"

\* The actor-critic half of C11: learn_from_batch with an unhandled rescaler
\* issues its gradient step with all-zero value targets and advantages.
C11_ActorCriticZeroGradient ==
    (pc = "learn_returned" /\ policy_gradient_rescaler \notin HandledByActorCritic) =>
        /\ train_targets = zeros(Len(batch))
        /\ train_advantages = zeros(Len(batch))
        /\ fault = "none"

\* The fill half of C11: fill_advantages with an unhandled rescaler returns
\* without a fault, having computed and written nothing.
C11_FillWritesNothing ==
    (pc \in {"fill_returned", "truncate"} /\ policy_gradient_rescaler \notin HandledByPPO) =>
        /\ raw_advantages = <<>>
        /\ raw_value_targets = <<>>
        /\ \A id \in DOMAIN info : info[id] = NoInfo

\* A train() call that passed the readiness gate has ended, by returning or by
\* raising.
TrainEnded == should_train /\ pc \in {"train_returned", "faulted"}

\* C12: every train() call that passes the readiness gate cleans the memory
\* exactly once and adds exactly 1 to training_iteration, whatever
\* num_consecutive_training_steps and optimization_epochs are, and does both
\* only after its last gradient step: while the call runs the memory is
\* untouched and nothing has been cleaned.
C12_CleanOncePerTraining ==
    /\ TrainEnded => (cleans = 1 /\ training_iteration = 1)
    /\ (should_train /\ ~TrainEnded) =>
          /\ cleans = 0
          /\ training_iteration = 0
          /\ memory \in Memories(Len(info))

\* The part of C12 that is about the calls that return: one clean and one
\* increment, after all the gradient steps of the last training step, and none
\* while the call runs or when it raises.
C12_CleanOnceWhenReturned ==
    /\ cleans = training_iteration
    /\ cleans <= 1
    /\ (should_train /\ pc = "train_returned") =>
          /\ cleans = 1
          /\ memory = <<>>
          /\ training_step = num_consecutive_training_steps
          /\ gradient_steps =
                 optimization_epochs * (Len(batch) \div network_batch_size)
    /\ (should_train /\ pc # "train_returned") =>
          /\ cleans = 0
          /\ memory \in Memories(Len(info))

\* A two-step, two-epoch train() has returned after its clean.
C12_ReturnedAfterTwoSteps ==
    /\ should_train
    /\ pc = "train_returned"
    /\ num_consecutive_training_steps = 2
    /\ optimization_epochs = 2
    /\ cleans = 1

\* w is a run of transitions in collection order (ids i, i + 1, ...) inside one
\* episode of mem, ending at that episode's game over.
EpisodeRun(w, mem) ==
    /\ w # <<>>
    /\ \A j \in 1..(Len(w) - 1) : w[j + 1] = w[j] + 1
    /\ \A j \in 1..(Len(w) - 1) : ~mem[w[j]].game_over
    /\ mem[w[Len(w)]].game_over

\* s lists its ids in increasing (collection) order.
InCollectionOrder(b) == \A p, q \in 1..Len(b) : p < q => b[p].id < b[q].id

\* C13: every window train() hands to the estimator, in every training step,
\* is a contiguous run in collection order inside one episode, ending at the
\* episode's game over, and every advantage fill sees its batch in collection
\* order, whatever was shuffled or truncated before.
C13_WindowsAreEpisodeRuns ==
    memory # <<>> =>
        /\ \A k \in 1..Len(windows) : EpisodeRun(windows[k], memory)
        /\ pc = "truncate" => InCollectionOrder(batch)

\* The windows of the first training step are episode runs.
C13_FirstStepWindows ==
    (memory # <<>> /\ training_step = 0) =>
        /\ \A k \in 1..Len(windows) : EpisodeRun(windows[k], memory)
        /\ pc = "truncate" => InCollectionOrder(batch)

\* Never: the second fill handed the estimator the episode 1, 2, 3 as the
\* window 2, 1, 3.
C13_NoSwappedWindow ==
    ~ ( /\ pc = "truncate"
        /\ training_step = 1
        /\ windows = << <<2, 1, 3>> >> )

\* a and b hold the same transitions, each once, in any order.
SameTransitions(a, b) ==
    /\ Len(a) = Len(b)
    /\ {a[p] : p \in 1..Len(a)} = {b[p] : p \in 1..Len(b)}
    /\ \A p, q \in 1..Len(a) : p # q => a[p].id # a[q].id

\* A gradient step of the running epoch has just been issued.
GradientStepIssued == pc = "minibatch" /\ minibatch > 0

\* C14: in every gradient step, after the truncation and shuffle of train()
\* and the shuffles of train_network, position p of the minibatch holds the
\* state and action of one transition together with the advantage and the value
\* target that fill_advantages wrote for that same transition; a shuffle
\* leaves the batch size unchanged.
C14_GradientInputsAligned ==
    GradientStepIssued =>
        LET M == network_batch_size
            start == (minibatch - 1) * M
        IN  /\ SameTransitions(batch, dataset)
            /\ Len(last_minibatch) = M
            /\ Len(train_advantages) = M
            /\ Len(train_targets) = M
            /\ \A p \in 1..M :
                  /\ last_minibatch[p] = batch[start + p].id
                  /\ train_advantages[p] = info[last_minibatch[p]].advantage
                  /\ train_targets[p] = info[last_minibatch[p]].gae_based_value_target

\* The part of C14 that is about positions: the transitions, the advantages and
\* the value targets of a gradient step are those of the same batch positions,
\* the advantage is the one in the transition's info, and the value target is
\* the one in its info when estimate_state_value_using_gae is set and its
\* recorded total return otherwise.
C14_SamePositions ==
    GradientStepIssued =>
        LET M == network_batch_size
            start == (minibatch - 1) * M
        IN  /\ SameTransitions(batch, dataset)
            /\ Len(last_minibatch) = M
            /\ Len(train_advantages) = M
            /\ Len(train_targets) = M
            /\ \A p \in 1..M :
                  /\ last_minibatch[p] = batch[start + p].id
                  /\ train_advantages[p] = info[last_minibatch[p]].advantage
                  /\ train_targets[p] =
                        IF estimate_state_value_using_gae
                        THEN info[last_minibatch[p]].gae_based_value_target
                        ELSE total_return(memory, ap_discount, last_minibatch[p])

\* C14 as stated holds in the first training step.
C14_AlignedInFirstStep == training_step = 0 => C14_GradientInputsAligned

\* C14 as stated holds when the value targets are read from the info.
C14_AlignedWhenUsingGae == estimate_state_value_using_gae => C14_GradientInputsAligned

\* C15: in every training step of train() the networks are synced exactly once,
\* before the advantage fill and before the first gradient step of the step,
\* and never again until the step is over: all the minibatches of all the
\* epochs of a step read the old policy from the same target snapshot.
C15_OneSyncPerStep ==
    should_train =>
        /\ pc \in {"idle", "sync"} => syncs = training_step
        /\ pc \in {"fill", "truncate", "epoch", "minibatch", "faulted"} =>
              syncs = training_step + 1
        /\ pc \in {"post", "train_returned"} =>
              (syncs = training_step /\ syncs = num_consecutive_training_steps)
        /\ pc = "fill" => (windows = <<>> \/ training_step > 0)
        /\ (pc \in {"sync", "fill"} /\ training_step = 0) => gradient_steps = 0

\* The second epoch of the second training step has issued a gradient step,
\* with two syncs so far.
C15_Witness ==
    /\ should_train
    /\ pc = "minibatch"
    /\ training_step = 1
    /\ epoch = 1
    /\ minibatch > 0
    /\ syncs = 2

\* The bootstrap a value target r + discount * bootstrap was computed with.
BootstrapOf(target, reward, gamma) == RDiv(RSub(target, reward), gamma)

\* C16 as stated: the bootstrap at the end of an estimation window is 0 if and
\* only if the window's last transition has game_over set, and otherwise it is
\* the predicted value of that transition's next state: in learn_from_batch
\* for A_VALUE, CUSTOM_ACTOR_CRITIC and GAE; in fill_advantages every window
\* ends at a transition with game_over set and its bootstrap is 0.
C16_BootstrapZeroIffGameOver ==
    /\ (pc = "learn_returned" /\ policy_gradient_rescaler \in HandledByActorCritic) =>
          LET N == Len(batch)
              predicted == IF policy_gradient_rescaler = "CUSTOM_ACTOR_CRITIC"
                           THEN critic_value[batch[N].id + 1]
                           ELSE online_value[batch[N].id + 1]
              bootstrap == BootstrapOf(train_targets[N], batch[N].reward, ap_discount)
          IN  /\ (bootstrap = Zero) <=> batch[N].game_over
              /\ ~batch[N].game_over => bootstrap = predicted
    /\ (pc = "fill_returned" /\ policy_gradient_rescaler = "GAE") =>
          \A k \in 1..Len(windows) :
              LET w == windows[k]
                  e == CHOOSE p \in 1..Len(batch) : batch[p].id = w[Len(w)]
              IN  /\ batch[e].game_over
                  /\ BootstrapOf(raw_value_targets[e], batch[e].reward, ap_discount) = Zero

\* C16, amended: the bootstrap at the end of an estimation window is 0 when the
\* window's last transition has game_over set, and otherwise the predicted
\* value of that transition's next state, which is 0 exactly when the
\* prediction is 0: in learn_from_batch for A_VALUE, CUSTOM_ACTOR_CRITIC (the
\* critic's value) and GAE (values[N]); in fill_advantages every window ends at
\* a transition with game_over set and its bootstrap is 0.
C16_BootstrapAtWindowEnd ==
    /\ (pc = "learn_returned" /\ policy_gradient_rescaler \in HandledByActorCritic) =>
          LET N == Len(batch)
              predicted == IF policy_gradient_rescaler = "CUSTOM_ACTOR_CRITIC"
                           THEN critic_value[batch[N].id + 1]
                           ELSE online_value[batch[N].id + 1]
              bootstrap == BootstrapOf(train_targets[N], batch[N].reward, ap_discount)
          IN  /\ batch[N].game_over => bootstrap = Zero
              /\ ~batch[N].game_over => bootstrap = predicted
    /\ (pc = "fill_returned" /\ policy_gradient_rescaler = "GAE") =>
          /\ Len(windows) = Cardinality({p \in 1..Len(batch) : batch[p].game_over})
          /\ \A k \in 1..Len(windows) :
                LET w == windows[k]
                    e == CHOOSE p \in 1..Len(batch) : batch[p].id = w[Len(w)]
                IN  /\ batch[e].game_over
                    /\ \A j \in 1..(Len(w) - 1) : w[j + 1] = w[j] + 1
                    /\ BootstrapOf(raw_value_targets[e], batch[e].reward, ap_discount) = Zero

\* learn_from_batch has returned in A_VALUE mode from a batch that ends in a
\* game over while the network predicts 1 for the state after it.
C16_Witness ==
    /\ pc = "learn_returned"
    /\ Len(batch) >= 2
    /\ policy_gradient_rescaler = "A_VALUE"
    /\ batch[Len(batch)].game_over
    /\ online_value[Len(batch) + 1] = One
    /\ train_targets[Len(batch)] = batch[Len(batch)].reward

\* learn_from_batch has returned in GAE mode from an open batch with a
\* predicted bootstrap of 1.
C16_OpenBatchWitness ==
    /\ pc = "learn_returned"
    /\ Len(batch) >= 2
    /\ policy_gradient_rescaler = "GAE"
    /\ ~batch[Len(batch)].game_over
    /\ online_value[Len(batch) + 1] = One
    /\ train_targets[Len(batch)] = RAdd(batch[Len(batch)].reward, ap_discount)

\* fill_advantages has returned from two episodes in GAE mode.
C16_FillWitness ==
    /\ pc = "fill_returned"
    /\ policy_gradient_rescaler = "GAE"
    /\ Len(windows) = 2
    /\ Len(windows[2]) >= 2

\* C17: with gae_lambda = 1 the two value-target modes agree: whichever mode
\* computed them, the targets are both advantage[i] + values[i] and the
\* bootstrapped discounted return R[i] = rewards[i] + discount * R[i+1],
\* R[N] = values[N], for every window and discount.
C17_TargetModesAgreeAtLambdaOne ==
    (pc = "gae_returned" /\ gae_lambda = One) =>
        LET N == Len(arg_rewards)
        IN  /\ Len(ret_returns) = N
            /\ \A i \in 1..N : ret_returns[i] = RAdd(ret_gae[i], arg_values[i])
            /\ ret_returns[N] = RAdd(arg_rewards[N], RMul(ap_discount, arg_values[N + 1]))
            /\ \A i \in 1..(N - 1) :
                  ret_returns[i] =
                      RAdd(arg_rewards[i], RMul(ap_discount, ret_returns[i + 1]))

\* At gae_lambda = 1 and discount 1/2, plain-return targets of a window of at
\* least two steps with non-zero values inside and a bootstrap of 1 have been
\* computed.
C17_Witness ==
    /\ pc = "gae_returned"
    /\ gae_lambda = One
    /\ ap_discount = Rat(1, 2)
    /\ ~estimate_state_value_using_gae
    /\ Len(arg_rewards) >= 2
    /\ arg_values[2] = One
    /\ arg_values[Len(arg_values)] = One
    /\ arg_rewards[1] = Rat(3, 1)

\* Away from gae_lambda = 1 the two modes differ.
C17_ModesDifferBelowLambdaOne ==
    (pc = "gae_returned" /\ ~estimate_state_value_using_gae) =>
        \A i \in 1..Len(ret_returns) : ret_returns[i] = RAdd(ret_gae[i], arg_values[i])

====
